---- MODULE Spec2Model ----
(***************************************************************************)
(* Booking and appointment lifecycle of the healthcare appointment         *)
(* servers: book_appointment_comprehensive and update_appointment_status   *)
(* (test_adv.py), book_appointment_intelligent (mcp_chat_appointment.py),  *)
(* over the catalog store (time_slots) and the ledger store                *)
(* (enhanced_appointments, appointment_status_history, appointments).      *)
(***************************************************************************)
EXTENDS Integers, Sequences, FiniteSets, TLC

----------------------------------------------------------------------------
(* Bounds of the model *)

\* booking calls, of either booking tool, that get past the slot check
MaxBookings == 2
\* update_appointment_status calls on existing appointments
MaxUpdates == 2
\* seconds the wall clock advances
MaxClock == 1
\* chat turns that reach the generator
MaxTurns == 2

----------------------------------------------------------------------------
(* Values *)

\* Python's None / SQL NULL for text columns and dictionary values
None == "<None>"
\* a key that the booking_data JSON does not carry
Absent == "<absent>"
\* execute_dynamic_query returned None instead of a row id
NoneId == 0

\* concurrently served tool calls of book_appointment_comprehensive
Sessions == {"s1", "s2"}

\* seeded catalog: doctors.id, services.id, time_slots.id -> owning doctor
Doctors == {1, 2}
Services == {1}
SlotIds == {1, 2}
SlotDoctor == [id \in SlotIds |-> id]

\* identifiers a caller may send (one more than exists of each)
DoctorInputs == Doctors \cup {3}
ServiceInputs == Services \cup {2}
SlotInputs == SlotIds \cup {3}
NameInputs == {"Asha", Absent, None}
ComplaintInputs == {"cough"}
ServiceName == [id \in Services |-> "General Checkup"]

\* seeded rows: doctors.name, services.duration_minutes, and the first slot of
\* each doctor's day, as the texts 'HH:MM:SS' (hour, minute, second)
DoctorName == [id \in Doctors |-> IF id = 1 THEN "Rajesh Kumar" ELSE "Priya Sharma"]
ServiceDuration == [id \in Services |-> 45]
SlotStart == [id \in SlotIds |-> IF id = 1 THEN <<9, 0, 0>> ELSE <<10, 0, 0>>]
SlotEnd == [id \in SlotIds |-> IF id = 1 THEN <<9, 30, 0>> ELSE <<10, 30, 0>>]
\* time_slots.day_of_week of these slots: 1 = Monday ... 7 = Sunday
SlotDay == [id \in SlotIds |-> 1]

\* appointment_date values a caller may send, as the texts 'YYYY-MM-DD', and
\* the day of the week each falls on (1 = Monday ... 7 = Sunday)
DateInputs == {"2026-11-02", "2026-11-03", "2026-11-08"}
Weekday == [date \in DateInputs |->
              IF date = "2026-11-02" THEN 1
              ELSE IF date = "2026-11-03" THEN 2 ELSE 7]
\* datetime.now().strftime('%Y-%m-%d'), the date of the clock's seconds
Today == "2026-11-02"

\* seeded doctors rows: name, working_hours_start, working_hours_end and
\* available_days (Monday = 1)
SeedDoctorRow(id) ==
  [name |-> DoctorName[id],
   working_hours_start |-> IF id = 1 THEN <<9, 0, 0>> ELSE <<10, 0, 0>>,
   working_hours_end |-> IF id = 1 THEN <<17, 0, 0>> ELSE <<18, 0, 0>>,
   available_days |-> IF id = 1 THEN <<1, 2>> ELSE <<1>>]

AllowedStatus == {"scheduled", "completed", "cancelled", "no_show"}
StatusInputs == AllowedStatus \cup {"rescheduled"}

\* booking_data as sent by a caller; malformed is text json.loads rejects
\* A well-formed request names a doctor, one of that doctor's slots and a
\* service, with a patient name that is given, left out or null.
WellFormedRequests ==
  {r \in [doctor_id : Doctors, service_id : Services, time_slot_id : SlotIds,
          name : NameInputs, complaint : ComplaintInputs, malformed : {FALSE}] :
     SlotDoctor[r.time_slot_id] = r.doctor_id}

\* The requests with one defect each: another doctor's slot, an unknown
\* doctor, service or slot, and text that json.loads rejects.
DefectiveRequests ==
  {r \in [doctor_id : DoctorInputs, service_id : ServiceInputs,
          time_slot_id : SlotInputs, name : {"Asha"},
          complaint : ComplaintInputs, malformed : BOOLEAN] :
     \/ /\ ~r.malformed /\ r.service_id \in Services
        /\ r.doctor_id \in Doctors /\ r.time_slot_id \in SlotIds
        /\ SlotDoctor[r.time_slot_id] # r.doctor_id
     \/ /\ ~r.malformed /\ r.service_id \in Services
        /\ r.doctor_id \notin Doctors /\ r.time_slot_id = 1
     \/ /\ ~r.malformed /\ r.service_id \notin Services
        /\ r.doctor_id = 1 /\ r.time_slot_id = 1
     \/ /\ ~r.malformed /\ r.service_id \in Services
        /\ r.doctor_id = 1 /\ r.time_slot_id \notin SlotIds
     \/ /\ r.malformed /\ r.service_id \in Services
        /\ r.doctor_id = 1 /\ r.time_slot_id = 1}

Requests == WellFormedRequests \cup DefectiveRequests

\* the requests that carry a patient name
NamedRequests == {r \in Requests : r.name = "Asha"}

\* book_appointment_intelligent names the patient by patient_id and reads no
\* patient name
IntelligentRequests == NamedRequests

\* seeded doctor_services rows (doctor_id, service_id) of these doctors and
\* services
DoctorServices == {<<1, 1>>}

\* day_preference values a caller may send, and day_mapping.get of their
\* lower case: the number of the day, or None for a text that names no day
DayInputs == {None, "Monday", "tuesday", "someday"}
day_mapping == [day_preference \in DayInputs |->
                  IF day_preference = "Monday" THEN 1
                  ELSE IF day_preference = "tuesday" THEN 2 ELSE NoneId]

\* chat: the session ids and messages callers send, and the coroutines of
\* generate_response that may be in flight together
ChatSessions == {"default", "terminal"}
UserMessages == {"hello", "I need a doctor"}
Turns == {1, 2}
NoTurn == [pc |-> "idle", session_id |-> Absent, user_message |-> Absent]

\* requests that carry the key appointment_date
DatedRequests ==
  {r \in [doctor_id : Doctors, service_id : Services, time_slot_id : SlotIds,
          name : {"Asha"}, complaint : ComplaintInputs, malformed : {FALSE},
          appointment_date : DateInputs] :
     SlotDoctor[r.time_slot_id] = r.doctor_id}

\* data.get('appointment_date', datetime.now().strftime('%Y-%m-%d'))
appointment_date(req) ==
  IF "appointment_date" \in DOMAIN req THEN req.appointment_date ELSE Today

\* what the summary generator may answer with (response.text)
GeneratedTexts == {"generated summary"}

VARIABLES
  doctors,                     \* catalog store: doctors rows by id
  services,                    \* catalog store: services rows by id
  time_slots,                  \* catalog store: time_slots rows by id
  enhanced_appointments,       \* ledger store: rows, id = position
  appointment_status_history,  \* ledger store: rows in insertion order
  appointments,                \* ledger store: table of book_appointment_intelligent
  now,                         \* wall clock, in seconds
  pc,                          \* per session: where its booking coroutine waits
  locals,                      \* per session: the coroutine's local variables
  updateCalls,                 \* per appointment id: update_appointment_status calls made
  successes,                   \* per slot: bookings answered success = true
                               \* since the slot's appointment was last cancelled
  returned,                    \* the response returned by the latest step, if any
  conversation_history,        \* ai_manager.conversation_history: session id -> entries
  turns                        \* per chat turn in flight: where generate_response waits

vars == <<doctors, services, time_slots, enhanced_appointments, appointment_status_history,
          appointments, now, pc, locals, updateCalls, successes, returned,
          conversation_history, turns>>

stores == <<doctors, services, time_slots, enhanced_appointments, appointment_status_history,
            appointments>>

----------------------------------------------------------------------------
(* Helpers *)

Last(s) == s[Len(s)]

NoLocals ==
  [doctor_id |-> 0, service_id |-> 0, time_slot_id |-> 0, name |-> Absent,
   complaint |-> Absent, appointment_number |-> 0, main_summary |-> "",
   doctor_name |-> "", service_name |-> "", duration |-> 0,
   start_time |-> <<0, 0, 0>>, end_time |-> <<0, 0, 0>>,
   appointment_date |-> Absent]

NoResponse ==
  [tool |-> "none", success |-> FALSE, error |-> "",
   time_slot_id |-> 0, name |-> Absent, slot_ok |-> FALSE,
   appointment_id |-> NoneId, appointment_number |-> 0,
   old_status |-> None, new_status |-> None, availability |-> {}]

\* json.dumps({"success": False, "error": ...}) of a booking tool
BookingFailure(tool, req, error, slotOk) ==
  [NoResponse EXCEPT !.tool = tool, !.error = error,
                     !.time_slot_id = req.time_slot_id,
                     !.slot_ok = slotOk]

\* bookings that are past the slot check: the finished comprehensive ones
\* wrote one 'Initial booking' history row each, the others are waiting; the
\* intelligent ones wrote one appointments row each
StartedBookings ==
  Cardinality({i \in DOMAIN appointment_status_history :
                 appointment_status_history[i].changed_by = "ai_assistant"})
  + Cardinality({s \in Sessions : pc[s] # "idle"})
  + Len(appointments)

RECURSIVE SumCalls(_, _)
SumCalls(f, n) == IF n = 0 THEN 0 ELSE f[n] + SumCalls(f, n - 1)

----------------------------------------------------------------------------
(* Catalog and ledger queries *)

\* the slot check without its condition doctor_id = ?
SlotCheckIgnoringDoctor(slots, slot_id, doctor_id) ==
  /\ slot_id \in DOMAIN slots
  /\ slots[slot_id].is_available

\* the slot check without its condition is_available = 1
SlotCheckIgnoringAvailability(slots, slot_id, doctor_id) ==
  /\ slot_id \in DOMAIN slots
  /\ slots[slot_id].doctor_id = doctor_id

\* SELECT * FROM time_slots WHERE id = ? AND doctor_id = ? AND is_available = 1
SlotCheck(slots, slot_id, doctor_id) ==
  /\ slot_id \in DOMAIN slots
  /\ slots[slot_id].doctor_id = doctor_id
  /\ slots[slot_id].is_available

\* SELECT ts.* ... FROM time_slots ts JOIN doctors d ... WHERE ts.id = ? AND ts.is_available = 1
SlotCheckIntelligent(slots, slot_id) ==
  /\ slot_id \in DOMAIN slots
  /\ slots[slot_id].doctor_id \in Doctors
  /\ slots[slot_id].is_available

\* the availability query without its condition ts.is_available = 1 when a
\* doctor is named
AvailabilityOfNamedDoctor(slots, doctor_rows, doctor_id, service_id, day_preference) ==
  {id \in DOMAIN slots :
     /\ slots[id].doctor_id \in DOMAIN doctor_rows
     /\ doctor_id # NoneId \/ slots[id].is_available
     /\ doctor_id # NoneId => slots[id].doctor_id = doctor_id
     /\ service_id # NoneId => <<slots[id].doctor_id, service_id>> \in DoctorServices
     /\ day_mapping[day_preference] # NoneId
          => slots[id].day_of_week = day_mapping[day_preference]}

\* SELECT DISTINCT ts.*, ... FROM time_slots ts JOIN doctors d ... [JOIN
\* doctor_services ds ...] WHERE ts.is_available = 1 [AND ts.doctor_id = ?]
\* [AND ds.service_id = ?] [AND ts.day_of_week = ?]: the ids of the rows
AvailabilityQuery(slots, doctor_rows, doctor_id, service_id, day_preference) ==
  {id \in DOMAIN slots :
     /\ slots[id].doctor_id \in DOMAIN doctor_rows
     /\ slots[id].is_available
     /\ doctor_id # NoneId => slots[id].doctor_id = doctor_id
     /\ service_id # NoneId => <<slots[id].doctor_id, service_id>> \in DoctorServices
     /\ day_mapping[day_preference] # NoneId
          => slots[id].day_of_week = day_mapping[day_preference]}

\* UPDATE time_slots SET is_available = 0 WHERE id = ?
MarkSlotUnavailable(slots, slot_id) ==
  [id \in DOMAIN slots |->
     IF id = slot_id THEN [slots[id] EXCEPT !.is_available = FALSE]
     ELSE slots[id]]

\* datetime.strptime(text, '%H:%M:%S').time(), as the second of the day
ParseTime(text) == text[1] * 3600 + text[2] * 60 + text[3]

\* time.strftime('%H:%M:%S') of a second of the day
FormatTime(second) ==
  <<second \div 3600, (second % 3600) \div 60, second % 60>>

\* an end time that takes the width of a slot instead of the service duration
SlotWidthEndTime(start_time, duration) ==
  FormatTime((ParseTime(start_time) + 30 * 60) % 86400)

\* (datetime.combine(datetime.today(), start_time)
\*   + timedelta(minutes=duration)).time(): the date is dropped
appointment_end_time(start_time, duration) ==
  FormatTime((ParseTime(start_time) + duration * 60) % 86400)

\* datetime.now().strftime('%Y%m%d%H%M%S'): one token per clock second
generate_appointment_number(clock) == clock

\* constraints of enhanced_appointments that a booking can violate:
\* appointment_number TEXT UNIQUE NOT NULL, patient_name TEXT NOT NULL
InsertAccepted(rows, row) ==
  /\ row.patient_name # None
  /\ \A i \in DOMAIN rows : rows[i].appointment_number # row.appointment_number

\* execute_dynamic_query(INSERT ...): the new row id, or None on any error
InsertedId(rows, row) ==
  IF InsertAccepted(rows, row) THEN Len(rows) + 1 ELSE NoneId

InsertRow(rows, row) ==
  IF InsertAccepted(rows, row) THEN Append(rows, row) ELSE rows

\* patient_data.get('name', ''), the value bound to patient_name
NameForInsert(name) == IF name = Absent THEN "" ELSE name

\* data.get('complaint', ''), the value bound to patient_complaint
ComplaintForInsert(complaint) == IF complaint = Absent THEN "" ELSE complaint

\* 'ai_patient_summary': main_summary of the normal return of
\* generate_patient_summary
GeneratedSummary(text) ==
  [template |-> FALSE, text |-> text, name |-> "", service_name |-> "",
   complaint |-> ""]

\* an except branch that answers with an empty summary
EmptyFallbackSummary(name, service_name, complaint) ==
  [template |-> TRUE, text |-> "", name |-> "", service_name |-> "",
   complaint |-> ""]

\* 'ai_patient_summary' of the except branch of generate_patient_summary:
\* f"Patient {name} scheduled for {service_name}. Complaint: {complaint}. ..."
FallbackSummary(name, service_name, complaint) ==
  [template |-> TRUE,
   text |-> "Patient .. scheduled for ... Complaint: ... Please conduct thorough examination as per standard protocol.",
   name |-> IF name = Absent THEN "Unknown" ELSE name,
   service_name |-> service_name,
   complaint |-> complaint]

\* len(ai_patient_summary) > 0
SummaryNonEmpty(summary) == summary.text # ""

----------------------------------------------------------------------------
(* Initial state: the seeded catalog, an empty ledger, no call in progress *)

Init ==
  /\ doctors = [id \in Doctors |-> SeedDoctorRow(id)]
  /\ services = [id \in Services |->
                   [name |-> ServiceName[id],
                    duration_minutes |-> ServiceDuration[id]]]
  /\ time_slots = [id \in SlotIds |->
                     [doctor_id |-> SlotDoctor[id], is_available |-> TRUE,
                      day_of_week |-> SlotDay[id],
                      start_time |-> SlotStart[id], end_time |-> SlotEnd[id]]]
  /\ enhanced_appointments = <<>>
  /\ appointment_status_history = <<>>
  /\ appointments = <<>>
  /\ now = 0
  /\ pc = [s \in Sessions |-> "idle"]
  /\ locals = [s \in Sessions |-> NoLocals]
  /\ updateCalls = [id \in 1..MaxBookings |-> 0]
  /\ successes = [id \in SlotIds |-> 0]
  /\ returned = NoResponse
  /\ conversation_history = <<>>
  /\ turns = [t \in Turns |-> NoTurn]

----------------------------------------------------------------------------
(* book_appointment_comprehensive (test_adv.py) *)

\* up to the first await: parse, doctor, service and slot lookups, number
book_appointment_comprehensive_call(s, req) ==
  /\ pc[s] = "idle"
  /\ LET slotOk == SlotCheck(time_slots, req.time_slot_id, req.doctor_id)
         fail(error) ==
           /\ returned' = BookingFailure("book_appointment_comprehensive",
                                         req, error, slotOk)
           /\ UNCHANGED <<pc, locals>>
     IN IF req.malformed THEN fail("exception")
        ELSE IF req.doctor_id \notin Doctors THEN fail("Doctor not found")
        ELSE IF req.service_id \notin Services THEN fail("Service not found")
        ELSE IF ~slotOk THEN fail("Time slot not available")
        ELSE /\ StartedBookings < MaxBookings
             /\ pc' = [pc EXCEPT ![s] = "summary"]
             /\ locals' = [locals EXCEPT ![s] =
                  [doctor_id |-> req.doctor_id, service_id |-> req.service_id,
                   time_slot_id |-> req.time_slot_id, name |-> req.name,
                   complaint |-> req.complaint,
                   appointment_date |-> appointment_date(req),
                   appointment_number |-> generate_appointment_number(now),
                   main_summary |-> "",
                   doctor_name |-> doctors[req.doctor_id].name,
                   service_name |-> services[req.service_id].name,
                   duration |-> services[req.service_id].duration_minutes,
                   start_time |-> time_slots[req.time_slot_id].start_time,
                   end_time |->
                     appointment_end_time(
                       time_slots[req.time_slot_id].start_time,
                       services[req.service_id].duration_minutes)]]
             /\ returned' = NoResponse
  /\ UNCHANGED <<stores, now, conversation_history, turns, updateCalls, successes>>

\* from the return of generate_patient_summary to the return of the tool:
\* INSERT INTO enhanced_appointments, UPDATE time_slots, INSERT INTO
\* appointment_status_history, the success response
book_appointment_comprehensive_finish(s, ai_patient_summary) ==
  LET l == locals[s]
      row == [appointment_number |-> l.appointment_number,
              patient_name |-> NameForInsert(l.name),
              doctor_id |-> l.doctor_id,
              doctor_name |-> l.doctor_name,
              service_id |-> l.service_id,
              service_name |-> l.service_name,
              service_duration |-> l.duration,
              appointment_date |-> l.appointment_date,
              appointment_time |-> l.start_time,
              appointment_end_time |-> l.end_time,
              slot_id |-> l.time_slot_id,
              patient_complaint |-> ComplaintForInsert(l.complaint),
              ai_patient_summary |-> ai_patient_summary,
              status |-> "scheduled"]
      appointment_id == InsertedId(enhanced_appointments, row)
      response ==
        [NoResponse EXCEPT !.tool = "book_appointment_comprehensive",
                           !.success = TRUE,
                           !.time_slot_id = l.time_slot_id,
                           !.name = l.name, !.slot_ok = TRUE,
                           !.appointment_id = appointment_id,
                           !.appointment_number = l.appointment_number,
                           !.new_status = "scheduled"]
  IN /\ enhanced_appointments' = InsertRow(enhanced_appointments, row)
     /\ time_slots' = MarkSlotUnavailable(time_slots, l.time_slot_id)
     /\ appointment_status_history' =
          Append(appointment_status_history,
                 [appointment_id |-> appointment_id, old_status |-> None,
                  new_status |-> "scheduled", changed_by |-> "ai_assistant"])
     /\ returned' = response
     /\ successes' = [successes EXCEPT ![l.time_slot_id] = @ + 1]
     /\ pc' = [pc EXCEPT ![s] = "idle"]
     /\ locals' = [locals EXCEPT ![s] = NoLocals]
     /\ UNCHANGED <<doctors, services, appointments, now, conversation_history, turns, updateCalls>>

\* the first generate_content call answers: main_summary = response.text
summary_call_returns(s, text) ==
  /\ pc[s] = "summary"
  /\ pc' = [pc EXCEPT ![s] = "insights"]
  /\ locals' = [locals EXCEPT ![s].main_summary = text]
  /\ returned' = NoResponse
  /\ UNCHANGED <<stores, now, conversation_history, turns, updateCalls, successes>>

\* the first generate_content call raises: fallback summary, then the rest
\* of the booking without another await
summary_call_raises(s) ==
  /\ pc[s] = "summary"
  /\ book_appointment_comprehensive_finish(s,
       FallbackSummary(locals[s].name, locals[s].service_name,
                       ComplaintForInsert(locals[s].complaint)))

\* the second generate_content call answers
insights_call_returns(s) ==
  /\ pc[s] = "insights"
  /\ book_appointment_comprehensive_finish(s,
       GeneratedSummary(locals[s].main_summary))

\* the second generate_content call raises: the main summary is dropped too
insights_call_raises(s) ==
  /\ pc[s] = "insights"
  /\ book_appointment_comprehensive_finish(s,
       FallbackSummary(locals[s].name, locals[s].service_name,
                       ComplaintForInsert(locals[s].complaint)))

----------------------------------------------------------------------------
(* book_appointment_intelligent (mcp_chat_appointment.py): no await, one step *)

book_appointment_intelligent(req) ==
  LET slotOk == SlotCheck(time_slots, req.time_slot_id, req.doctor_id)
      tool == "book_appointment_intelligent"
  IN IF req.malformed
     THEN /\ returned' = BookingFailure(tool, req, "exception", slotOk)
          /\ UNCHANGED <<stores, successes>>
     ELSE IF ~SlotCheckIntelligent(time_slots, req.time_slot_id)
     THEN /\ returned' = BookingFailure(tool, req, "Time slot not available",
                                        slotOk)
          /\ UNCHANGED <<stores, successes>>
     ELSE /\ StartedBookings < MaxBookings
          /\ appointments' =
               Append(appointments,
                      [doctor_id |-> req.doctor_id,
                       service_id |-> req.service_id,
                       patient_complaint |-> ComplaintForInsert(req.complaint),
                       status |-> "scheduled"])
          /\ time_slots' = MarkSlotUnavailable(time_slots, req.time_slot_id)
          /\ returned' =
               [NoResponse EXCEPT !.tool = tool, !.success = TRUE,
                                  !.time_slot_id = req.time_slot_id,
                                  !.slot_ok = slotOk,
                                  !.new_status = "scheduled"]
          /\ successes' = [successes EXCEPT ![req.time_slot_id] = @ + 1]
          /\ UNCHANGED <<doctors, services, enhanced_appointments,
                         appointment_status_history>>

book_appointment_intelligent_call(req) ==
  /\ book_appointment_intelligent(req)
  /\ UNCHANGED <<now, conversation_history, turns, pc, locals, updateCalls>>

----------------------------------------------------------------------------
(* update_appointment_status (test_adv.py): no await, one step *)

\* a status update that also refreshes the doctor and service fields of the
\* row from the catalog
SetStatusRefreshingSnapshot(rows, appointment_id, new_status) ==
  LET row == rows[appointment_id]
  IN [rows EXCEPT ![appointment_id] =
        [row EXCEPT !.status = new_status,
                    !.doctor_name = doctors[row.doctor_id].name,
                    !.service_name = services[row.service_id].name,
                    !.service_duration =
                       services[row.service_id].duration_minutes]]

\* a status update that leaves completed, cancelled and no_show appointments
\* as they are
SetStatusUnlessFinal(rows, appointment_id, new_status) ==
  IF rows[appointment_id].status \in {"completed", "cancelled", "no_show"}
  THEN rows
  ELSE [rows EXCEPT ![appointment_id].status = new_status]

\* UPDATE enhanced_appointments SET status = ? WHERE id = ?
SetStatus(rows, appointment_id, new_status) ==
  [rows EXCEPT ![appointment_id].status = new_status]

\* a history insert that is skipped when the status does not change
LogStatusChangeIfChanged(history, appointment_id, old_status, new_status, changed_by) ==
  IF old_status = new_status THEN history
  ELSE Append(history, [appointment_id |-> appointment_id,
                        old_status |-> old_status, new_status |-> new_status,
                        changed_by |-> changed_by])

\* a history write that keeps one row per appointment: it replaces the latest
\* row of the appointment when there is one
LogStatusChangeReplacing(history, appointment_id, old_status, new_status, changed_by) ==
  LET entry == [appointment_id |-> appointment_id, old_status |-> old_status,
                new_status |-> new_status, changed_by |-> changed_by]
      own == {i \in DOMAIN history : history[i].appointment_id = appointment_id}
  IN IF own = {} THEN Append(history, entry)
     ELSE [history EXCEPT ![CHOOSE i \in own : \A j \in own : j <= i] = entry]

\* a history write that takes every change to start from 'scheduled'
LogStatusChangeFromScheduled(history, appointment_id, old_status, new_status, changed_by) ==
  Append(history, [appointment_id |-> appointment_id,
                   old_status |-> "scheduled",
                   new_status |-> new_status, changed_by |-> changed_by])

\* a history write that does not record the status the appointment had
LogStatusChangeWithoutOld(history, appointment_id, old_status, new_status, changed_by) ==
  Append(history, [appointment_id |-> appointment_id, old_status |-> None,
                   new_status |-> new_status, changed_by |-> changed_by])

\* INSERT INTO appointment_status_history (appointment_id, old_status,
\* new_status, changed_by, reason)
LogStatusChange(history, appointment_id, old_status, new_status, changed_by) ==
  Append(history, [appointment_id |-> appointment_id,
                   old_status |-> old_status, new_status |-> new_status,
                   changed_by |-> changed_by])

\* an update that does not look the appointment up first
update_appointment_status_unchecked(appointment_id, new_status) ==
  /\ SumCalls(updateCalls, MaxBookings) < MaxUpdates
  /\ enhanced_appointments' =
       IF appointment_id \in DOMAIN enhanced_appointments
       THEN SetStatus(enhanced_appointments, appointment_id, new_status)
       ELSE enhanced_appointments
  /\ appointment_status_history' =
       LogStatusChange(appointment_status_history, appointment_id, None,
                       new_status, "system")
  /\ updateCalls' = [updateCalls EXCEPT ![appointment_id] = @ + 1]
  /\ returned' = [NoResponse EXCEPT !.tool = "update_appointment_status",
                    !.success = TRUE, !.appointment_id = appointment_id,
                    !.new_status = new_status]
  /\ UNCHANGED <<doctors, services, time_slots, appointments, successes>>

\* an update that gives the slot back whenever the appointment leaves
\* 'scheduled', not only when it is cancelled
update_appointment_status_freeing(appointment_id, new_status) ==
  /\ appointment_id \in DOMAIN enhanced_appointments
  /\ SumCalls(updateCalls, MaxBookings) < MaxUpdates
  /\ enhanced_appointments' =
       SetStatus(enhanced_appointments, appointment_id, new_status)
  /\ appointment_status_history' =
       LogStatusChange(appointment_status_history, appointment_id,
                       enhanced_appointments[appointment_id].status,
                       new_status, "system")
  /\ time_slots' =
       IF new_status # "scheduled"
       THEN [time_slots EXCEPT
               ![enhanced_appointments[appointment_id].slot_id].is_available
                  = TRUE]
       ELSE time_slots
  /\ updateCalls' = [updateCalls EXCEPT ![appointment_id] = @ + 1]
  /\ returned' = [NoResponse EXCEPT !.tool = "update_appointment_status",
                    !.success = TRUE, !.appointment_id = appointment_id,
                    !.time_slot_id =
                       enhanced_appointments[appointment_id].slot_id,
                    !.old_status = enhanced_appointments[appointment_id].status,
                    !.new_status = new_status]
  /\ UNCHANGED <<doctors, services, appointments, successes>>

update_appointment_status(appointment_id, new_status) ==
  LET tool == "update_appointment_status"
  IN IF appointment_id \notin DOMAIN enhanced_appointments
     THEN /\ returned' = [NoResponse EXCEPT !.tool = tool,
                            !.error = "Appointment not found",
                            !.appointment_id = appointment_id]
          /\ UNCHANGED <<stores, updateCalls, successes>>
     ELSE LET old_status == enhanced_appointments[appointment_id].status
          IN /\ SumCalls(updateCalls, MaxBookings) < MaxUpdates
             /\ enhanced_appointments' =
                  SetStatus(enhanced_appointments, appointment_id, new_status)
             /\ appointment_status_history' =
                  LogStatusChange(appointment_status_history, appointment_id,
                                  old_status, new_status, "system")
             /\ updateCalls' = [updateCalls EXCEPT ![appointment_id] = @ + 1]
             /\ returned' = [NoResponse EXCEPT !.tool = tool,
                               !.success = TRUE,
                               !.appointment_id = appointment_id,
                               !.time_slot_id =
                                  enhanced_appointments[appointment_id].slot_id,
                               !.old_status = old_status,
                               !.new_status = new_status]
             /\ successes' =
                  IF new_status = "cancelled"
                  THEN [successes EXCEPT
                          ![enhanced_appointments[appointment_id].slot_id] = 0]
                  ELSE successes
             /\ UNCHANGED <<doctors, services, time_slots, appointments>>

update_appointment_status_call(appointment_id, new_status) ==
  /\ update_appointment_status(appointment_id, new_status)
  /\ UNCHANGED <<now, conversation_history, turns, pc, locals>>

----------------------------------------------------------------------------
(* get_real_time_availability (test_adv.py, mcp_chat_appointment.py) *)

get_real_time_availability(doctor_id, service_id, day_preference) ==
  /\ returned' =
       [NoResponse EXCEPT
          !.tool = "get_real_time_availability",
          !.success = TRUE,
          !.availability =
             AvailabilityQuery(time_slots, doctors, doctor_id, service_id,
                               day_preference)]
  /\ UNCHANGED <<stores, now, conversation_history, turns, pc, locals, updateCalls, successes>>

----------------------------------------------------------------------------
(* GeminiAIManager.generate_response (test_adv.py, mcp_chat_appointment.py) *)

\* the history a failed turn leaves with the patient's message in it
HistoryWithUnansweredMessage(history, user_message) ==
  Append(history, [speaker |-> "Patient", text |-> user_message])

\* the except branch: the history of the session stays as it is
HistoryAfterFailure(history, user_message) == history

\* the two appends after the generator's answer
HistoryAfterAnswer(history, user_message, ai_response) ==
  history \o <<[speaker |-> "Patient", text |-> user_message],
               [speaker |-> "HealthBot AI", text |-> ai_response]>>

\* chat turns that have reached the generator: answered ones and waiting ones
StartedTurns ==
  Cardinality({t \in Turns : turns[t].pc # "idle"})
  + Cardinality({e \in {<<s, i>> : s \in DOMAIN conversation_history, i \in 1..(2 * MaxTurns)} :
                   /\ e[2] \in DOMAIN conversation_history[e[1]]
                   /\ conversation_history[e[1]][e[2]].speaker = "Patient"})

\* up to the await: a new session gets an empty history, the prompt is built
generate_response_call(t, session_id, user_message) ==
  /\ turns[t].pc = "idle"
  /\ StartedTurns < MaxTurns
  /\ conversation_history' =
       IF session_id \in DOMAIN conversation_history
       THEN conversation_history
       ELSE conversation_history @@ (session_id :> <<>>)
  /\ turns' = [turns EXCEPT ![t] = [pc |-> "generate",
                                    session_id |-> session_id,
                                    user_message |-> user_message]]
  /\ returned' = NoResponse
  /\ UNCHANGED <<stores, now, pc, locals, updateCalls, successes>>

\* generate_content answers: both entries are appended, the reply returned
generate_response_returns(t, ai_response) ==
  /\ turns[t].pc = "generate"
  /\ conversation_history' =
       [conversation_history EXCEPT ![turns[t].session_id] =
          HistoryAfterAnswer(@, turns[t].user_message, ai_response)]
  /\ turns' = [turns EXCEPT ![t] = NoTurn]
  /\ returned' = [NoResponse EXCEPT !.tool = "generate_response",
                                    !.success = TRUE]
  /\ UNCHANGED <<stores, now, pc, locals, updateCalls, successes>>

\* generate_content or response.text raises: the apology is returned
generate_response_raises(t) ==
  /\ turns[t].pc = "generate"
  /\ conversation_history' =
       [conversation_history EXCEPT ![turns[t].session_id] =
          HistoryAfterFailure(@, turns[t].user_message)]
  /\ turns' = [turns EXCEPT ![t] = NoTurn]
  /\ returned' = [NoResponse EXCEPT !.tool = "generate_response"]
  /\ UNCHANGED <<stores, now, pc, locals, updateCalls, successes>>

----------------------------------------------------------------------------
(* the wall clock *)

Tick ==
  /\ now < MaxClock
  /\ now' = now + 1
  /\ returned' = NoResponse
  /\ UNCHANGED <<stores, pc, locals, updateCalls, successes,
                 conversation_history, turns>>

----------------------------------------------------------------------------

Next ==
  \/ \E s \in Sessions, req \in Requests :
        book_appointment_comprehensive_call(s, req)
  \/ \E s \in Sessions, text \in GeneratedTexts : summary_call_returns(s, text)
  \/ \E s \in Sessions : summary_call_raises(s)
  \/ \E s \in Sessions : insights_call_returns(s)
  \/ \E s \in Sessions : insights_call_raises(s)
  \/ \E req \in IntelligentRequests : book_appointment_intelligent_call(req)
  \/ \E appointment_id \in 1..MaxBookings, new_status \in {"cancelled"} :
        update_appointment_status_call(appointment_id, new_status)
  \/ Tick

Spec == Init /\ [][Next]_vars

\* One caller of book_appointment_comprehensive at a time, next to the callers
\* of the other tools: every request, cancellations, the clock.
NextOneCaller ==
  \/ \E req \in Requests : book_appointment_comprehensive_call("s1", req)
  \/ \E text \in GeneratedTexts : summary_call_returns("s1", text)
  \/ summary_call_raises("s1")
  \/ insights_call_returns("s1")
  \/ insights_call_raises("s1")
  \/ \E req \in IntelligentRequests : book_appointment_intelligent_call(req)
  \/ \E appointment_id \in 1..MaxBookings, new_status \in {"cancelled"} :
        update_appointment_status_call(appointment_id, new_status)
  \/ Tick

SpecOneCaller == Init /\ [][NextOneCaller]_vars

\* Reservation of slots: one caller of book_appointment_comprehensive and the
\* callers of book_appointment_intelligent, with requests that carry a patient
\* name, next to cancellations and the clock.
NextReservation ==
  \/ \E req \in NamedRequests : book_appointment_comprehensive_call("s1", req)
  \/ \E text \in GeneratedTexts : summary_call_returns("s1", text)
  \/ summary_call_raises("s1")
  \/ insights_call_returns("s1")
  \/ insights_call_raises("s1")
  \/ \E req \in IntelligentRequests : book_appointment_intelligent_call(req)
  \/ \E appointment_id \in 1..MaxBookings, new_status \in {"cancelled"} :
        update_appointment_status_call(appointment_id, new_status)
  \/ Tick

SpecReservation == Init /\ [][NextReservation]_vars

\* The appointment lifecycle: one caller booking well-formed requests with a
\* patient name, and status updates with every status value a caller may send.
LifecycleRequests == {r \in WellFormedRequests : r.name = "Asha"}

NextLifecycle ==
  \/ \E req \in LifecycleRequests : book_appointment_comprehensive_call("s1", req)
  \/ \E text \in GeneratedTexts : summary_call_returns("s1", text)
  \/ summary_call_raises("s1")
  \/ insights_call_returns("s1")
  \/ insights_call_raises("s1")
  \/ \E appointment_id \in 1..MaxBookings, new_status \in StatusInputs :
        update_appointment_status_call(appointment_id, new_status)
  \/ Tick

SpecLifecycle == Init /\ [][NextLifecycle]_vars

\* Catalogs other than the seeded one: slots that start at other times of the
\* day, up to the last half hour before midnight, and other service durations.
StartTimeInputs == {<<9, 0, 0>>, <<10, 0, 0>>, <<23, 29, 0>>}
DurationInputs == {15, 45, 60}

InitAnyCatalog ==
  /\ doctors = [id \in Doctors |-> SeedDoctorRow(id)]
  /\ \E duration \in DurationInputs :
       services = [id \in Services |->
                     [name |-> ServiceName[id], duration_minutes |-> duration]]
  /\ \E start \in [SlotIds -> StartTimeInputs] :
       time_slots = [id \in SlotIds |->
                       [doctor_id |-> SlotDoctor[id], is_available |-> TRUE,
                        day_of_week |-> SlotDay[id],
                        start_time |-> start[id],
                        end_time |-> FormatTime(ParseTime(start[id]) + 1800)]]
  /\ enhanced_appointments = <<>>
  /\ appointment_status_history = <<>>
  /\ appointments = <<>>
  /\ now = 0
  /\ pc = [s \in Sessions |-> "idle"]
  /\ locals = [s \in Sessions |-> NoLocals]
  /\ updateCalls = [id \in 1..MaxBookings |-> 0]
  /\ successes = [id \in SlotIds |-> 0]
  /\ returned = NoResponse
  /\ conversation_history = <<>>
  /\ turns = [t \in Turns |-> NoTurn]

\* One caller booking well-formed requests, and the clock.
NextBooking ==
  \/ \E req \in LifecycleRequests : book_appointment_comprehensive_call("s1", req)
  \/ \E text \in GeneratedTexts : summary_call_returns("s1", text)
  \/ summary_call_raises("s1")
  \/ insights_call_returns("s1")
  \/ insights_call_raises("s1")
  \/ Tick

SpecAnyCatalog == InitAnyCatalog /\ [][NextBooking]_vars

----------------------------------------------------------------------------
(* create_services_database (db_setup.py): the time slots of every doctor *)

\* working hours a doctors row may carry, on minute granularity
WorkingStartInputs == {<<9, 0, 0>>, <<9, 15, 0>>, <<9, 30, 0>>, <<9, 45, 0>>}
WorkingEndInputs ==
  {<<10, 0, 0>>, <<10, 20, 0>>, <<10, 30, 0>>, <<11, 0, 0>>, <<11, 10, 0>>}

\* the while loop over one day, from (current_hour, current_min)
RECURSIVE SlotsOfDay(_, _, _, _, _, _)
SlotsOfDay(doctor_id, day_num, current_hour, current_min, end_hour, end_min) ==
  IF ~(current_hour < end_hour
       \/ (current_hour = end_hour /\ current_min < end_min))
  THEN <<>>
  ELSE LET carry == current_min + 30 >= 60
           end_slot_min == IF carry THEN current_min + 30 - 60
                           ELSE current_min + 30
           end_slot_hour == IF carry THEN current_hour + 1 ELSE current_hour
       IN IF end_slot_hour > end_hour
             \/ (end_slot_hour = end_hour /\ end_slot_min > end_min)
          THEN <<>>
          ELSE <<[doctor_id |-> doctor_id, day_of_week |-> day_num,
                  start_time |-> <<current_hour, current_min, 0>>,
                  end_time |-> <<end_slot_hour, end_slot_min, 0>>,
                  is_available |-> TRUE]>>
               \o SlotsOfDay(doctor_id, day_num,
                             IF carry THEN current_hour + 1 ELSE current_hour,
                             IF carry THEN 0 ELSE current_min + 30,
                             end_hour, end_min)

\* the loop over available_days of one doctor
RECURSIVE SlotsOfDoctor(_, _, _)
SlotsOfDoctor(doctor_id, row, n) ==
  IF n > Len(row.available_days) THEN <<>>
  ELSE SlotsOfDay(doctor_id, row.available_days[n],
                  row.working_hours_start[1], row.working_hours_start[2],
                  row.working_hours_end[1], row.working_hours_end[2])
       \o SlotsOfDoctor(doctor_id, row, n + 1)

\* the loop over the doctors
RECURSIVE SlotsOfDoctors(_, _)
SlotsOfDoctors(rows, doctor_id) ==
  IF doctor_id \notin DOMAIN rows THEN <<>>
  ELSE SlotsOfDoctor(doctor_id, rows[doctor_id], 1)
       \o SlotsOfDoctors(rows, doctor_id + 1)

\* the doctors rows are written, time_slots is still empty
InitSlotGrid ==
  /\ \E start \in [Doctors -> WorkingStartInputs],
        end \in [Doctors -> WorkingEndInputs] :
       doctors = [id \in Doctors |->
                    [SeedDoctorRow(id) EXCEPT
                       !.working_hours_start = start[id],
                       !.working_hours_end = end[id]]]
  /\ services = [id \in Services |->
                   [name |-> ServiceName[id],
                    duration_minutes |-> ServiceDuration[id]]]
  /\ time_slots = <<>>
  /\ enhanced_appointments = <<>>
  /\ appointment_status_history = <<>>
  /\ appointments = <<>>
  /\ now = 0
  /\ pc = [s \in Sessions |-> "idle"]
  /\ locals = [s \in Sessions |-> NoLocals]
  /\ updateCalls = [id \in 1..MaxBookings |-> 0]
  /\ successes = [id \in SlotIds |-> 0]
  /\ returned = NoResponse
  /\ conversation_history = <<>>
  /\ turns = [t \in Turns |-> NoTurn]

\* INSERT INTO time_slots of every generated slot
generate_time_slots ==
  /\ time_slots = <<>>
  /\ time_slots' = SlotsOfDoctors(doctors, 1)
  /\ UNCHANGED <<doctors, services, enhanced_appointments,
                 appointment_status_history, appointments, now, conversation_history, turns, pc, locals,
                 updateCalls, successes, returned>>

SpecSlotGrid == InitSlotGrid /\ [][generate_time_slots]_vars

----------------------------------------------------------------------------
(* Reference data edited in the catalog database. No tool of the servers   *)
(* writes the doctors or services rows; they are changed from outside.     *)

DoctorNameInputs == {"Renamed Doctor"}
ServiceNameInputs == {"Renamed Service"}

doctor_row_changes(id, name) ==
  /\ doctors[id].name # name
  /\ doctors' = [doctors EXCEPT ![id].name = name]
  /\ returned' = NoResponse
  /\ UNCHANGED <<services, time_slots, enhanced_appointments,
                 appointment_status_history, appointments, now, conversation_history, turns, pc, locals,
                 updateCalls, successes>>

service_row_changes(id, name, duration) ==
  /\ services[id] # [name |-> name, duration_minutes |-> duration]
  /\ services' = [services EXCEPT
                    ![id] = [name |-> name, duration_minutes |-> duration]]
  /\ returned' = NoResponse
  /\ UNCHANGED <<doctors, time_slots, enhanced_appointments,
                 appointment_status_history, appointments, now, conversation_history, turns, pc, locals,
                 updateCalls, successes>>

\* One caller booking well-formed requests, cancellations, and edits of the
\* reference data.
NextCatalogChange ==
  \/ \E req \in LifecycleRequests : book_appointment_comprehensive_call("s1", req)
  \/ \E text \in GeneratedTexts : summary_call_returns("s1", text)
  \/ summary_call_raises("s1")
  \/ insights_call_returns("s1")
  \/ insights_call_raises("s1")
  \/ \E appointment_id \in 1..MaxBookings, new_status \in {"cancelled"} :
        update_appointment_status_call(appointment_id, new_status)
  \/ \E id \in Doctors, name \in DoctorNameInputs : doctor_row_changes(id, name)
  \/ \E id \in Services, name \in ServiceNameInputs,
        duration \in DurationInputs : service_row_changes(id, name, duration)

SpecCatalogChange == Init /\ [][NextCatalogChange]_vars

----------------------------------------------------------------------------
(* Properties *)

BookingTools == {"book_appointment_comprehensive", "book_appointment_intelligent"}

HistoryOf(appointment_id) ==
  {i \in DOMAIN appointment_status_history :
     appointment_status_history[i].appointment_id = appointment_id}

\* C1: no double booking. For every slot, at most one booking request is
\* answered success = true per reservation of the slot (between two
\* cancellations of its appointment), under every interleaving.
NoDoubleBooking == \A id \in SlotIds : successes[id] <= 1

ReservationAllOrNothing ==
  [][returned'.tool = "book_appointment_comprehensive"
     => LET id == returned'.time_slot_id
            flipped == /\ id \in SlotIds
                       /\ time_slots[id].is_available
                       /\ ~time_slots'[id].is_available
            persisted == Len(enhanced_appointments')
                           = Len(enhanced_appointments) + 1
        IN flipped <=> persisted]_vars

\* C4: reservation-affecting errors are never swallowed. A booking answered
\* success = true carries the appointment_id of an existing ledger row with
\* the reported appointment number.
SuccessImpliesPersisted ==
  (returned.tool = "book_appointment_comprehensive" /\ returned.success)
  => /\ returned.appointment_id \in DOMAIN enhanced_appointments
     /\ enhanced_appointments[returned.appointment_id].appointment_number
          = returned.appointment_number

\* C5: a successful booking of a slot sets its flag to false; the flag then
\* stays false, and every booking request made for the slot from then on is
\* refused and writes nothing to either store: with 'Time slot not
\* available' when the request is otherwise well formed, and else with the
\* error of the earlier check that refused it.
BookedSlotStaysBooked ==
  [][/\ (returned'.tool \in BookingTools /\ returned'.success)
        => ~time_slots'[returned'.time_slot_id].is_available
     /\ \A id \in SlotIds :
          ~time_slots[id].is_available => ~time_slots'[id].is_available
     /\ \A s \in Sessions :
          (pc[s] = "idle" /\ pc'[s] = "summary")
          => time_slots[locals'[s].time_slot_id].is_available
     /\ (returned'.tool = "book_appointment_intelligent" /\ returned'.success)
        => time_slots[returned'.time_slot_id].is_available
     /\ (/\ returned'.tool \in BookingTools
         /\ ~returned'.success
         /\ returned'.time_slot_id \in SlotIds
         /\ ~time_slots[returned'.time_slot_id].is_available)
        => /\ returned'.error \in {"Time slot not available", "exception",
                                   "Doctor not found", "Service not found"}
           /\ ~returned'.slot_ok
           /\ UNCHANGED stores
           /\ \A req \in WellFormedRequests :
                (/\ req.time_slot_id = returned'.time_slot_id
                 /\ \/ \E s \in Sessions :
                         book_appointment_comprehensive_call(s, req)
                    \/ book_appointment_intelligent_call(req))
                => returned'.error = "Time slot not available"]_vars

\* C5 witness: a request for a slot that an earlier booking reserved was just
\* refused with 'Time slot not available'.
BookedSlotRefused ==
  /\ returned.tool \in BookingTools
  /\ ~returned.success
  /\ returned.error = "Time slot not available"
  /\ returned.time_slot_id \in SlotIds
  /\ ~time_slots[returned.time_slot_id].is_available
  /\ successes[returned.time_slot_id] >= 1

\* C6: a booking request whose slot does not exist, belongs to another doctor
\* or is unavailable when the request is made fails and leaves the catalog
\* and the ledger unchanged, whichever booking tool serves it.
BadSlotRequestRejected ==
  [][(returned'.tool \in BookingTools /\ ~returned'.slot_ok)
     => (~returned'.success /\ UNCHANGED stores)]_vars

GeneratorFailed(s) == summary_call_raises(s) \/ insights_call_raises(s)

UniqueAppointmentNumbers ==
  (returned.tool = "book_appointment_comprehensive" /\ returned.success)
  => \A i \in DOMAIN enhanced_appointments :
       enhanced_appointments[i].appointment_number = returned.appointment_number
       => i = returned.appointment_id

\* C10: validation precedes reservation. A booking request without a patient
\* name fails and leaves both stores unchanged.
ValidationPrecedesReservation ==
  [][(/\ returned'.tool = "book_appointment_comprehensive"
      /\ returned'.name \in {Absent, None})
     => (~returned'.success /\ UNCHANGED stores)]_vars

\* C11: a booking request whose doctor_id or service_id names no catalog
\* entity fails with 'Doctor not found' / 'Service not found' and leaves the
\* slot flags, the appointments and the status history unchanged, whichever
\* booking tool serves it.
UnknownEntityRejected ==
  [][\A req \in Requests :
       (/\ ~req.malformed
        /\ (req.doctor_id \notin Doctors \/ req.service_id \notin Services)
        /\ \/ \E s \in Sessions : book_appointment_comprehensive_call(s, req)
           \/ book_appointment_intelligent_call(req))
       => /\ ~returned'.success
          /\ returned'.error \in {"Doctor not found", "Service not found"}
          /\ UNCHANGED stores]_vars

\* minute of the day of a text 'HH:MM:SS'
MinuteOfDay(text) == text[1] * 60 + text[2]

Snapshot(row) ==
  [doctor_name |-> row.doctor_name, service_name |-> row.service_name,
   service_duration |-> row.service_duration,
   appointment_time |-> row.appointment_time,
   appointment_end_time |-> row.appointment_end_time]

MissingAppointmentRejected ==
  [][(/\ returned'.tool = "update_appointment_status"
      /\ returned'.appointment_id \notin DOMAIN enhanced_appointments)
     => /\ ~returned'.success
        /\ returned'.error = "Appointment not found"
        /\ UNCHANGED stores]_vars

\* C15 witness: an update of appointment 2 was refused while appointment 1
\* and its history exist.
MissingAppointmentRefused ==
  /\ returned.tool = "update_appointment_status"
  /\ ~returned.success
  /\ returned.error = "Appointment not found"
  /\ returned.appointment_id \notin DOMAIN enhanced_appointments
  /\ Len(enhanced_appointments) >= 1
  /\ Len(appointment_status_history) >= 1

\* an appointment row without its status
WithoutStatus(row) == [row EXCEPT !.status = "scheduled"]

\* C16: every successful booking creates exactly one appointment row and no
\* other step creates one; no step deletes a row, and the only field of an
\* existing row that a step changes is its status.
RowsCreatedOnceNeverDeleted ==
  [][/\ \A i \in DOMAIN enhanced_appointments :
          /\ i \in DOMAIN enhanced_appointments'
          /\ WithoutStatus(enhanced_appointments'[i])
               = WithoutStatus(enhanced_appointments[i])
     /\ Len(enhanced_appointments')
          = Len(enhanced_appointments)
            + (IF /\ returned'.tool = "book_appointment_comprehensive"
                  /\ returned'.success
               THEN 1 ELSE 0)]_vars

\* C17: the status history is append-only. Every step leaves the entries
\* already written in place and unmodified, so the history before the step is
\* a prefix of the history after it.
HistoryAppendOnly ==
  [][/\ Len(appointment_status_history') >= Len(appointment_status_history)
     /\ SubSeq(appointment_status_history', 1, Len(appointment_status_history))
          = appointment_status_history]_vars

\* C17 witness: an appointment was updated twice after its booking, and its
\* three entries are in the history in the order they were written.
HistoryKeepsEarlierEntries ==
  /\ Len(appointment_status_history) >= 3
  /\ \E id \in DOMAIN enhanced_appointments :
       /\ Cardinality(HistoryOf(id)) = 3
       /\ \E i, j, k \in HistoryOf(id) :
            /\ i < j /\ j < k
            /\ appointment_status_history[i].old_status = None
            /\ appointment_status_history[j].old_status
                 = appointment_status_history[i].new_status
            /\ appointment_status_history[k].old_status
                 = appointment_status_history[j].new_status

\* why a booking request with a known doctor and service is refused
FailureCause(req) ==
  IF req.malformed THEN "internal error"
  ELSE IF req.time_slot_id \notin SlotIds THEN "no such slot"
  ELSE IF ~time_slots[req.time_slot_id].is_available
       THEN "slot no longer available"
  ELSE "other"

\* C18: a refused booking request names its cause: an internal error, a slot
\* that does not exist and a slot that is already reserved ('Time slot not
\* available') never get the same reason string.
DistinctFailureReasons ==
  [][\A req \in Requests :
       (/\ req.malformed
           \/ (req.doctor_id \in Doctors /\ req.service_id \in Services)
        /\ \/ \E s \in Sessions : book_appointment_comprehensive_call(s, req)
           \/ book_appointment_intelligent_call(req)
        /\ ~returned'.success
        /\ returned'.tool \in BookingTools)
       => /\ FailureCause(req) = "internal error"
             => returned'.error = "exception"
          /\ FailureCause(req) = "slot no longer available"
             => returned'.error = "Time slot not available"
          /\ FailureCause(req) = "no such slot"
             => returned'.error \notin {"exception", "Time slot not available"}]_vars

\* the generated slots of one doctor on one day, by position in the table
SlotsOn(doctor_id, day_num) ==
  {i \in DOMAIN time_slots : /\ time_slots[i].doctor_id = doctor_id
                             /\ time_slots[i].day_of_week = day_num}

\* C19: slot grid of catalog generation. The slots of a doctor on a day are
\* 30 minutes wide, start at working_hours_start, each start where the
\* previous one ends, do not overlap, and lie within the working hours.
SlotGridInvariant ==
  \A d \in Doctors, day \in 1..7 :
    LET own == SlotsOn(d, day)
        from == MinuteOfDay(doctors[d].working_hours_start)
        to == MinuteOfDay(doctors[d].working_hours_end)
    IN \A i \in own :
         LET start == MinuteOfDay(time_slots[i].start_time)
             end == MinuteOfDay(time_slots[i].end_time)
         IN /\ end = start + 30
            /\ from <= start /\ end <= to
            /\ (\A j \in own : j >= i) => start = from
            /\ (i + 1) \in own
               => MinuteOfDay(time_slots[i + 1].start_time) = end
            /\ \A j \in own :
                 i < j => end <= MinuteOfDay(time_slots[j].start_time)

\* C20: the steps of a booking happen in the order reservation, ledger
\* insert, initial history entry, summary generation. While the summary
\* generator runs for a booking, the slot of the booking is already flipped
\* to unavailable and its appointment row and initial history entry are
\* written.
SummaryGeneratedLast ==
  \A s \in Sessions :
    pc[s] \in {"summary", "insights"}
    => /\ ~time_slots[locals[s].time_slot_id].is_available
       /\ \E i \in DOMAIN enhanced_appointments :
            /\ enhanced_appointments[i].slot_id = locals[s].time_slot_id
            /\ enhanced_appointments[i].appointment_number
                 = locals[s].appointment_number
            /\ HistoryOf(i) # {}

FirstEntryOf(appointment_id) ==
  CHOOSE i \in HistoryOf(appointment_id) :
    \A j \in HistoryOf(appointment_id) : i <= j

HistoryReferencesAppointment ==
  \A i \in DOMAIN appointment_status_history :
    /\ appointment_status_history[i].appointment_id # NoneId
    /\ appointment_status_history[i].appointment_id
         \in DOMAIN enhanced_appointments

\* the step just taken cancelled an appointment that holds slot time_slot_id
CancelsReservationOf(time_slot_id) ==
  /\ returned'.tool = "update_appointment_status"
  /\ returned'.success
  /\ returned'.new_status = "cancelled"
  /\ returned'.time_slot_id = time_slot_id

\* C24: a reserved slot is given back only by cancelling the appointment
\* that reserved it. Every other step (a status change to completed or
\* no_show or any other value, a booking that fails or succeeds, a generator
\* answer, the passing of time) leaves a slot whose flag is false with its
\* flag false.
OnlyCancellationFreesSlot ==
  [][\A time_slot_id \in SlotIds :
       (/\ ~time_slots[time_slot_id].is_available
        /\ ~CancelsReservationOf(time_slot_id))
       => ~time_slots'[time_slot_id].is_available]_vars

\* C24 witness: an appointment was just set to completed or no_show and the
\* slot it reserved is still unavailable.
CompletedKeepsSlotReserved ==
  /\ returned.tool = "update_appointment_status"
  /\ returned.success
  /\ returned.new_status \in {"completed", "no_show"}
  /\ returned.time_slot_id \in SlotIds
  /\ ~time_slots[returned.time_slot_id].is_available

\* The bookings of one caller with the passing of time as the only step that
\* is bound to happen: the two generate_content calls are awaited without a
\* timeout, so nothing obliges the generator to answer or to raise.
SpecGeneratorMayHang == Init /\ [][NextLifecycle]_vars /\ WF_vars(Tick)

\* C25: every booking attempt eventually returns: a session that waits for
\* the summary generator is eventually idle again, also when the generator
\* never answers.
BookingEventuallyReturns ==
  \A s \in Sessions : (pc[s] # "idle") ~> (pc[s] = "idle")

\* the history entry of the appointment that precedes entry i, if any
PreviousEntries(appointment_id, i) ==
  {j \in HistoryOf(appointment_id) : j < i}

----------------------------------------------------------------------------
(* bookings that name their date *)

\* One caller whose requests carry an appointment_date, and the clock.
NextDated ==
  \/ \E req \in DatedRequests : book_appointment_comprehensive_call("s1", req)
  \/ \E text \in GeneratedTexts : summary_call_returns("s1", text)
  \/ summary_call_raises("s1")
  \/ insights_call_returns("s1")
  \/ insights_call_raises("s1")
  \/ Tick

SpecDated == Init /\ [][NextDated]_vars

\* C28: the appointment_date of every appointment falls on the day of the
\* week of its slot (time_slots.day_of_week, 1 = Monday ... 7 = Sunday).
AppointmentDateOnSlotDay ==
  \A id \in DOMAIN enhanced_appointments :
    LET apt == enhanced_appointments[id]
    IN Weekday[apt.appointment_date] = time_slots[apt.slot_id].day_of_week

----------------------------------------------------------------------------
(* availability queries next to bookings and cancellations *)

NextAvailability ==
  \/ \E req \in NamedRequests : book_appointment_comprehensive_call("s1", req)
  \/ \E text \in GeneratedTexts : summary_call_returns("s1", text)
  \/ summary_call_raises("s1")
  \/ insights_call_returns("s1")
  \/ insights_call_raises("s1")
  \/ \E appointment_id \in 1..MaxBookings, new_status \in {"cancelled"} :
        update_appointment_status_call(appointment_id, new_status)
  \/ \E doctor_id \in DoctorInputs \cup {NoneId},
        service_id \in ServiceInputs \cup {NoneId},
        day_preference \in DayInputs :
        get_real_time_availability(doctor_id, service_id, day_preference)
  \/ Tick

SpecAvailability == Init /\ [][NextAvailability]_vars

\* C29: get_real_time_availability returns only slots whose flag is true in
\* the state it reads, whatever the doctor, service and day filters are.
AvailabilityOnlyFreeSlots ==
  returned.tool = "get_real_time_availability"
  => \A id \in returned.availability :
       /\ id \in DOMAIN time_slots
       /\ time_slots[id].is_available

\* C29 witness: with one slot booked, a query just returned the other slot
\* and not the booked one.
QuerySkipsBookedSlot ==
  /\ returned.tool = "get_real_time_availability"
  /\ returned.availability # {}
  /\ \E id \in DOMAIN time_slots :
       /\ ~time_slots[id].is_available
       /\ id \notin returned.availability

----------------------------------------------------------------------------
(* concurrent chat turns *)

NextChat ==
  \/ \E t \in Turns, session_id \in ChatSessions, user_message \in UserMessages :
        generate_response_call(t, session_id, user_message)
  \/ \E t \in Turns, ai_response \in GeneratedTexts :
        generate_response_returns(t, ai_response)
  \/ \E t \in Turns : generate_response_raises(t)
  \/ Tick

SpecChat == Init /\ [][NextChat]_vars

\* the history of a session, empty for a session that has none yet
HistoryOfSession(history, session_id) ==
  IF session_id \in DOMAIN history THEN history[session_id] ELSE <<>>

\* C30: every step changes the conversation history of at most one session,
\* and only by appending the pair of a turn of that session that was waiting
\* for the generator: its 'Patient' message, then the 'HealthBot AI' reply.
\* A turn that fails appends nothing. So after every step each session's
\* history has even length and alternates patient and bot entries.
HistoryGrowsInPairs ==
  [][/\ \A s \in ChatSessions :
          LET old == HistoryOfSession(conversation_history, s)
              new == HistoryOfSession(conversation_history', s)
          IN /\ \/ new = old
                \/ /\ \E t \in Turns, ai_response \in GeneratedTexts :
                        /\ turns[t].pc = "generate"
                        /\ turns[t].session_id = s
                        /\ turns'[t].pc = "idle"
                        /\ new = old \o
                             <<[speaker |-> "Patient",
                                text |-> turns[t].user_message],
                               [speaker |-> "HealthBot AI",
                                text |-> ai_response]>>
                   /\ returned'.tool = "generate_response"
                   /\ returned'.success
                   /\ \A other \in ChatSessions \ {s} :
                        HistoryOfSession(conversation_history', other)
                          = HistoryOfSession(conversation_history, other)
             /\ Len(new) % 2 = 0
             /\ \A i \in DOMAIN new :
                  new[i].speaker
                    = IF i % 2 = 1 THEN "Patient" ELSE "HealthBot AI"
     /\ (returned'.tool = "generate_response" /\ ~returned'.success)
          => \A s \in ChatSessions :
               HistoryOfSession(conversation_history', s)
                 = HistoryOfSession(conversation_history, s)]_vars

\* C30 witness: a turn has just failed, no turn is waiting, and a session's
\* history holds exactly the pair of an answered turn.
FailedTurnBesideAnsweredTurn ==
  /\ returned.tool = "generate_response"
  /\ ~returned.success
  /\ \E s \in DOMAIN conversation_history :
       /\ Len(conversation_history[s]) = 2
       /\ conversation_history[s][1].speaker = "Patient"
       /\ conversation_history[s][2].speaker = "HealthBot AI"
  /\ \A t \in Turns : turns[t].pc = "idle"

====
